---- MODULE Spec2Model ----
(***************************************************************************)
(* Model of the Metasploit wrapper for cotopaxi.amplifier_detector         *)
(* (integrations/metasploit/modules/auxiliary/cotopaxi/                    *)
(* amplifier_detector.py).                                                 *)
(*                                                                         *)
(* A Python str is a sequence of one-character strings; indices in the     *)
(* Python helpers below are 0-based as in the source and converted to the  *)
(* 1-based TLA+ sequences inside the helpers only.                         *)
(*                                                                         *)
(* One process loads the module (lines 24-68) and then module.run calls    *)
(* run(args) for the one request that the host platform hands to the       *)
(* process (lines 157-158).                                                *)
(***************************************************************************)
EXTENDS Integers, Sequences, FiniteSets

VARIABLES
    pc,                   \* "start" | "loaded" | "crashed" | "done"
    import_failure,       \* which load-time import failed (environment)
    bound,                \* module-level names bound so far
    common_utils_attrs,   \* attributes the helper module has defined
    DEPENDENCIES_MISSING, \* the flag of lines 41/44 (meaningful once bound)
    load_error,           \* uncaught error that ended the load, or "none"
    load_log,             \* module.log calls of the import handler (line 43)
    args,                 \* the mapping run() was called with, after run()
    engine_report,        \* what the engine printed (environment)
    cotopaxi_output,      \* the captured text (line 115)
    engine_calls,         \* argument lists scrap_output(main, .) was given
    reported,             \* module.report_service calls, in call order
    module_log,           \* module.log calls made by run()
    logging_error,        \* logging.error calls made by run()
    caught                \* exception caught at line 151, or "none"

vars == <<pc, import_failure, bound, common_utils_attrs, DEPENDENCIES_MISSING,
          load_error, load_log, args, engine_report, cotopaxi_output,
          engine_calls, reported, module_log, logging_error, caught>>

(***************************************************************************)
(* Bounds of the model.                                                    *)
(***************************************************************************)
MaxGroups == 2      \* lines between the markers of a report with both markers
MaxTokens == 2      \* address tokens in one report
MaxStrayLines == 1  \* lines of a report that lacks a marker

(***************************************************************************)
(* Literals of the source.                                                 *)
(***************************************************************************)
NL == "\n"
START_MARKER == <<"A", "c", "t", "i", "v", "e", " ", "e", "n", "d", "p", "o", "i", "n", "t", "s", ":">>
END_MARKER == <<"T", "o", "t", "a", "l", " ", "n", "u", "m", "b", "e", "r">>
PROTOCOL_PREFIX == <<"P", "r", "o", "t", "o", "c", "o", "l", ".">>
COLON == <<":">>
COMMA == <<",">>
STRIP_CHARS == {" ", "'"}
FORMAT_ERROR == "Incorrect format of Cotopaxi response!"
UPPER == <<"A", "B", "C", "D", "E", "F", "G", "H", "I", "J", "K", "L", "M", "N", "O", "P", "Q", "R", "S", "T", "U", "V", "W", "X", "Y", "Z">>
LOWER == <<"a", "b", "c", "d", "e", "f", "g", "h", "i", "j", "k", "l", "m", "n", "o", "p", "q", "r", "s", "t", "u", "v", "w", "x", "y", "z">>

(***************************************************************************)
(* The protocol enumeration and registry of the scanning engine, as the    *)
(* wrapper uses them: member names are upper case (line 96 upper-cases a   *)
(* name before getattr), and each member has a transport class.            *)
(***************************************************************************)
SSDP == <<"S", "S", "D", "P">>
HTTP == <<"H", "T", "T", "P">>
UDP == <<"U", "D", "P">>
TCP == <<"T", "C", "P">>
Protocol == {SSDP, HTTP}
PROTOCOL_TESTERS == [p \in Protocol |-> IF p = SSDP THEN UDP ELSE TCP]

(***************************************************************************)
(* Python built-ins used by run().                                         *)
(***************************************************************************)
\* The element of a one-element set.  Value({e(x) : x \in {v}}) is e(v) with
\* v evaluated once.
Value(S) == CHOOSE v \in S : TRUE

Min(S) == CHOOSE x \in S : \A y \in S : x <= y
Max(S) == CHOOSE x \in S : \A y \in S : x >= y

\* a slice bound as Python normalises it for a sequence of length n
SliceIndex(i, n) == IF i < 0 THEN (IF i + n < 0 THEN 0 ELSE i + n)
                    ELSE (IF i > n THEN n ELSE i)

\* s[a:b]
PySlice(s, a, b) ==
    Value({IF lo < hi THEN SubSeq(str, lo + 1, hi) ELSE <<>> :
             str \in {s},
             lo \in {SliceIndex(a, Len(s))},
             hi \in {SliceIndex(b, Len(s))}})

\* s[a:]
PySliceFrom(s, a) == PySlice(s, a, Len(s))

\* sub occurs in s at 0-based index i
OccursAt(s, sub, i) == \A j \in 1..Len(sub) : s[i + j] = sub[j]

\* s.find(sub, start): lowest index >= start where sub occurs, or -1
PyFind(s, sub, start) ==
    Value({IF found = {} THEN -1 ELSE Min(found) :
             found \in {Value({{i \in from..(Len(str) - Len(sub)) :
                                   OccursAt(str, sub, i)} :
                               str \in {s},
                               from \in {SliceIndex(start, Len(s))}})}})

\* s.split(sep): split at every occurrence of sep; "" gives [""]
RECURSIVE PySplit(_, _)
PySplit(s, sep) ==
    Value({IF i < 0 THEN <<str>>
           ELSE <<SubSeq(str, 1, i)>>
                \o PySplit(PySliceFrom(str, i + Len(sep)), sep) :
             str \in {s}, i \in {PyFind(s, sep, 0)}})

\* s.splitlines(): no trailing empty line, "" gives []
RECURSIVE PySplitLines(_)
PySplitLines(s) ==
    Value({IF str = <<>> THEN <<>>
           ELSE IF i < 0 THEN <<str>>
           ELSE <<SubSeq(str, 1, i)>> \o PySplitLines(PySliceFrom(str, i + 1)) :
             str \in {s}, i \in {PyFind(s, <<NL>>, 0)}})

\* s.strip(chars)
PyStrip(s, chars) ==
    Value({IF keep = {} THEN <<>> ELSE SubSeq(str, Min(keep), Max(keep)) :
             str \in {s},
             keep \in {{i \in 1..Len(s) : s[i] \notin chars}}})

\* s.lower()
LowerChar(c) ==
    IF \E i \in 1..Len(UPPER) : UPPER[i] = c
    THEN LOWER[CHOOSE i \in 1..Len(UPPER) : UPPER[i] = c]
    ELSE c
PyLower(s) == [i \in 1..Len(s) |-> LowerChar(s[i])]

(***************************************************************************)
(* run(), lines 104-154, statement by statement.                           *)
(***************************************************************************)
\* line 107 with the test of the flag forgotten
never_short_circuit(missing) == FALSE

\* line 107
short_circuit(missing) == missing

\* lines 112-114 with the emptiness test of RPORTS forgotten
parameters_any_rports(a) ==
    IF "RPORTS" \in DOMAIN a
    THEN <<a["RHOSTS"], a["RPORTS"]>>
    ELSE <<a["RHOSTS"]>>

\* lines 112-114
parameters(a) ==
    IF "RPORTS" \in DOMAIN a /\ a["RPORTS"] # ""
    THEN <<a["RHOSTS"], a["RPORTS"]>>
    ELSE <<a["RHOSTS"]>>

\* line 117
start_index(output) == PyFind(output, START_MARKER, 0)

\* line 118 searching from the start of the text
end_index_from_zero(output) == PyFind(output, END_MARKER, 0)

\* line 118
end_index(output) == PyFind(output, END_MARKER, start_index(output))

\* line 119
format_error(output) == start_index(output) < 0 \/ end_index(output) < 0

\* lines 121-123 without dropping the first line of the slice
protocol_services_with_header(output) ==
    PySplitLines(PySlice(output, start_index(output) + 2,
                         end_index(output) - 1))

\* lines 121-123
protocol_services(output) ==
    PySliceFrom(
        PySplitLines(PySlice(output, start_index(output) + 2,
                             end_index(output) - 1)),
        1)

\* line 125
name_start(protocol_service) == PyFind(protocol_service, PROTOCOL_PREFIX, 0)

\* line 126
name_end(protocol_service) ==
    PyFind(protocol_service, COLON, name_start(protocol_service))

\* line 127
proto_name(protocol_service) ==
    PySlice(protocol_service,
            name_start(protocol_service) + Len(PROTOCOL_PREFIX),
            name_end(protocol_service))

\* line 128 without dropping the closing bracket
services_with_bracket(protocol_service) ==
    PySplit(PySliceFrom(protocol_service, name_end(protocol_service) + 3),
            COMMA)

\* line 128
services(protocol_service) ==
    PySplit(PySlice(protocol_service, name_end(protocol_service) + 3, -1),
            COMMA)

\* lines 130-131 without the strip
service_fields_unstripped(service) == PySplit(service, COLON)

\* lines 130-131
service_fields(service) == PySplit(PyStrip(service, STRIP_CHARS), COLON)

\* line 132
service_ip(fields) == fields[1]

\* line 133 taking the last field
service_port_last(fields) == fields[Len(fields)]

\* line 133
service_port(fields) == fields[2]

\* line 135: getattr(Protocol, proto_name) finds a member by its exact name
has_member(name) == name \in Protocol

\* lines 134-138
transport_proto(name) == PROTOCOL_TESTERS[name]

\* lines 145-150
report_service(ip, proto, port, name) ==
    [ip |-> ip, proto |-> proto, port |-> port, name |-> name]

\* lines 129-150: the inner loop over one line's address tokens.  done holds
\* the report_service calls made so far; the result holds the calls made
\* and the exception that ended the loop, if any.
RECURSIVE service_loop(_, _, _)
service_loop(tokens, name, done) ==
    IF tokens = <<>> THEN [calls |-> done, exc |-> "none"]
    ELSE Value({
           IF Len(fields) < 2
           THEN [calls |-> done, exc |-> "IndexError"]
           ELSE IF ~has_member(name)
           THEN [calls |-> done, exc |-> "AttributeError"]
           ELSE service_loop(Tail(tokens), name,
                    Append(done,
                           report_service(service_ip(fields),
                                          PyLower(transport_proto(name)),
                                          service_port(fields),
                                          PyLower(name)))) :
           fields \in {service_fields(Head(tokens))}})

\* lines 124-150: the outer loop over the candidate lines
RECURSIVE line_loop(_, _)
line_loop(lines, done) ==
    IF lines = <<>> THEN [calls |-> done, exc |-> "none"]
    ELSE Value({
           IF r.exc # "none" THEN r ELSE line_loop(Tail(lines), r.calls) :
           r \in {service_loop(Value({services(l) : l \in {Head(lines)}}),
                               Value({proto_name(l) : l \in {Head(lines)}}),
                               done)}})

\* lines 116-150: what run() does with the captured text
parse(output) ==
    IF format_error(output)
    THEN [calls |-> <<>>, exc |-> FORMAT_ERROR]
    ELSE Value({line_loop(lines, <<>>) :
                  lines \in {protocol_services(output)}})

\* lines 111-115: the calls of the engine that run(a) makes
invoke(a, missing) ==
    IF short_circuit(missing) THEN <<>> ELSE <<parameters(a)>>

\* lines 107-109 and 115-154: what run() does once the engine has answered.
\* outcome is what the engine did when called: it raised, or it printed
\* outcome.text.
handle(outcome, missing) ==
    IF short_circuit(missing)
    THEN \* lines 107-109
         [output |-> <<>>, calls |-> <<>>, module_log |-> 0,
          logging_error |-> 1, caught |-> "none"]
    ELSE IF outcome.raises
    THEN \* line 115 raises, lines 151-154
         [output |-> <<>>, calls |-> <<>>, module_log |-> 1,
          logging_error |-> 1, caught |-> "EngineError"]
    ELSE \* lines 116-150, and 151-154 when a statement raises
         Value({[output |-> outcome.text,
                 calls |-> r.calls,
                 module_log |-> 1 + Len(r.calls)
                                  + (IF r.exc = "none" THEN 0 ELSE 1),
                 logging_error |-> IF r.exc = "none" THEN 0 ELSE 1,
                 caught |-> r.exc] :
                r \in {parse(outcome.text)}})

(***************************************************************************)
(* Loading the module, lines 24-68.                                        *)
(***************************************************************************)
\* the names the try block binds, in the order of lines 30-38
IMPORT_ORDER == <<"module", "Protocol", "PROTOCOL_TESTERS", "main",
                  "common_utils">>

\* The ways the load can go.  point is the import that fails ("none": all
\* succeed); the helper file of lines 35-39 is executed by exec_module, which
\* can fail with ImportError (an import inside the helper) or with an error
\* that is not an ImportError (the file cannot be read), after the helper
\* has or has not defined PARAMETER_RHOSTS.
ImportFailures ==
    [point : {"none", "module", "Protocol", "PROTOCOL_TESTERS", "main"},
     exc : {"ImportError"}, helper_defined : {FALSE}]
    \cup [point : {"common_utils"}, exc : {"ImportError", "OSError"},
          helper_defined : BOOLEAN]

\* position of a name in IMPORT_ORDER
ImportIndex(name) == CHOOSE i \in 1..Len(IMPORT_ORDER) : IMPORT_ORDER[i] = name

\* lines 30-39: names bound when the try block ends.  common_utils is bound
\* at line 38, before exec_module runs the helper at line 39.
try_bound(f) ==
    IF f.point = "none" THEN {IMPORT_ORDER[i] : i \in 1..Len(IMPORT_ORDER)}
    ELSE {IMPORT_ORDER[i] : i \in 1..(ImportIndex(f.point) - 1)}
         \cup (IF f.point = "common_utils" THEN {"common_utils"} ELSE {})

\* line 39: attributes of the helper module after exec_module
try_helper_attrs(f) ==
    IF f.point = "none" THEN {"PARAMETER_RHOSTS", "scrap_output"}
    ELSE IF f.point = "common_utils" /\ f.helper_defined
    THEN {"PARAMETER_RHOSTS"}
    ELSE {}

\* lines 29-44: the try statement.  Only ImportError is handled; the handler
\* itself uses the name module (line 43).
import_block(f) ==
    IF f.point = "none"
    THEN [bound |-> try_bound(f) \cup {"DEPENDENCIES_MISSING"},
          missing |-> FALSE, log |-> 0, error |-> "none"]
    ELSE IF f.exc # "ImportError"
    THEN [bound |-> try_bound(f), missing |-> FALSE, log |-> 0,
          error |-> f.exc]
    ELSE IF "module" \notin try_bound(f)
    THEN [bound |-> try_bound(f), missing |-> FALSE, log |-> 0,
          error |-> "NameError"]
    ELSE [bound |-> try_bound(f) \cup {"DEPENDENCIES_MISSING"},
          missing |-> TRUE, log |-> 1, error |-> "none"]

\* lines 47-68: METADATA evaluates common_utils.PARAMETER_RHOSTS (line 60)
metadata_error(names, attrs) ==
    IF "common_utils" \notin names THEN "NameError"
    ELSE IF "PARAMETER_RHOSTS" \notin attrs THEN "AttributeError"
    ELSE "none"

(***************************************************************************)
(* The environment: requests of the host platform and reports of the       *)
(* scanning engine.                                                        *)
(***************************************************************************)
HOST == "192.0.2.1"
Args == {[RHOSTS |-> HOST]}
        \cup {[RHOSTS |-> HOST, RPORTS |-> p] : p \in {"", "1900"}}

ssdp == <<"s", "s", "d", "p">>
EP_A == [ip |-> <<"1", "0", ".", "5">>, port |-> <<"1", "9">>]
EP_B == [ip |-> <<"1", "0", ".", "6">>, port |-> <<"8", "0">>]
Endpoints == {EP_A, EP_B}
\* '<ip>:<port>'
Token(e) == e.ip \o <<":">> \o e.port
TOK_MULTI == <<"f", "e", ":", ":", "1", ":", "5", "3">>
TOK_NOCOLON == <<"1", "0", ".", "7">>
JUNK == <<"-", "-">>
PREFIX == <<"[", "+", "]", " ">>
TAIL == <<":", " ", "2", NL>>

Names == {SSDP, ssdp}
Tokens == {Token(e) : e \in Endpoints} \cup {TOK_MULTI, TOK_NOCOLON}

SeqsUpTo(S, n) == UNION {[1..k -> S] : k \in 0..n}

\* what the engine can print between the markers: a service-group line per
\* protocol with up to t addresses, or a malformed line without "Protocol."
JunkLine == [kind |-> "junk", name |-> <<>>, addrs |-> <<>>]
Lines(t) ==
    [kind : {"group"}, name : Names, addrs : SeqsUpTo(Tokens, t)]
    \cup {JunkLine}

\* the sequences of up to g lines that hold up to t addresses in all
RECURSIVE Bodies(_, _)
Bodies(g, t) ==
    {<<>>} \cup
    (IF g = 0 THEN {}
     ELSE UNION {{<<l>> \o rest : rest \in Bodies(g - 1, t - Len(l.addrs))} :
                 l \in Lines(t)})

\* the shapes of a report: both markers in order, or a marker missing or
\* misplaced
StrayShapes == {"no_markers", "no_start", "no_end", "end_before_start"}

\* what the engine can do when called: print a report, or raise
EngineReports ==
    [raises : {FALSE}, shape : {"ok"}, lines : Bodies(MaxGroups, MaxTokens)]
    \cup [raises : {FALSE}, shape : StrayShapes,
          lines : Bodies(MaxStrayLines, MaxTokens)]
    \cup {[raises |-> TRUE, shape |-> "ok", lines |-> <<>>]}

\* str() of a list of str: ['a', 'b']
RECURSIVE RenderAddrs(_)
RenderAddrs(addrs) ==
    IF addrs = <<>> THEN <<>>
    ELSE <<"'">> \o Head(addrs) \o <<"'">>
         \o (IF Len(addrs) > 1 THEN <<",", " ">> ELSE <<>>)
         \o RenderAddrs(Tail(addrs))

\* Protocol.<NAME>: ['ip:port', ...]
RenderLine(l) ==
    IF l.kind = "junk" THEN JUNK
    ELSE PROTOCOL_PREFIX \o l.name \o <<":", " ", "[">>
         \o RenderAddrs(l.addrs) \o <<"]">>

RECURSIVE RenderBody(_)
RenderBody(lines) ==
    IF lines = <<>> THEN <<>>
    ELSE RenderLine(Head(lines)) \o <<NL>> \o RenderBody(Tail(lines))

\* the text of a report
Render(r) ==
    CASE r.shape = "ok" ->
           PREFIX \o START_MARKER \o <<NL>> \o RenderBody(r.lines)
           \o END_MARKER \o TAIL
      [] r.shape = "no_markers" ->
           PREFIX \o <<NL>> \o RenderBody(r.lines)
      [] r.shape = "no_start" ->
           PREFIX \o <<NL>> \o RenderBody(r.lines) \o END_MARKER \o TAIL
      [] r.shape = "no_end" ->
           PREFIX \o START_MARKER \o <<NL>> \o RenderBody(r.lines)
      [] r.shape = "end_before_start" ->
           END_MARKER \o TAIL \o PREFIX \o START_MARKER \o <<NL>>
           \o RenderBody(r.lines)

NoReport == [raises |-> FALSE, shape |-> "none", lines |-> <<>>]
NoArgs == [RHOSTS |-> ""]

(***************************************************************************)
(* The state machine.                                                      *)
(***************************************************************************)
Init ==
    /\ pc = "start"
    /\ import_failure = "none"
    /\ bound = {}
    /\ common_utils_attrs = {}
    /\ DEPENDENCIES_MISSING = FALSE
    /\ load_error = "none"
    /\ load_log = 0
    /\ args = NoArgs
    /\ engine_report = NoReport
    /\ cotopaxi_output = <<>>
    /\ engine_calls = <<>>
    /\ reported = <<>>
    /\ module_log = 0
    /\ logging_error = 0
    /\ caught = "none"

\* lines 24-68: the interpreter executes the module body
Load ==
    /\ pc = "start"
    /\ \E f \in ImportFailures :
         LET b == import_block(f)
             e == IF b.error # "none" THEN b.error
                  ELSE metadata_error(b.bound, try_helper_attrs(f))
         IN  /\ import_failure' = f.point
             /\ bound' = IF e = "none" THEN b.bound \cup {"METADATA"}
                         ELSE b.bound
             /\ common_utils_attrs' = try_helper_attrs(f)
             /\ DEPENDENCIES_MISSING' = b.missing
             /\ load_log' = b.log
             /\ load_error' = e
             /\ pc' = IF e = "none" THEN "loaded" ELSE "crashed"
    /\ UNCHANGED <<args, engine_report, cotopaxi_output, engine_calls,
                   reported, module_log, logging_error, caught>>

\* lines 157-158 and 104-154: module.run hands the request to run()
Run ==
    /\ pc = "loaded"
    /\ \E outcome \in EngineReports :
       \E text \in {Render(outcome)} :
       \E r \in {handle([raises |-> outcome.raises, text |-> text],
                        DEPENDENCIES_MISSING)} :
       \E a \in Args :
         /\ args' = a
         /\ engine_calls' = invoke(a, DEPENDENCIES_MISSING)
         /\ engine_report' = IF engine_calls' = <<>> THEN NoReport
                             ELSE outcome
         /\ cotopaxi_output' = r.output
         /\ reported' = r.calls
         /\ module_log' = r.module_log
         /\ logging_error' = r.logging_error
         /\ caught' = r.caught
    /\ pc' = "done"
    /\ UNCHANGED <<import_failure, bound, common_utils_attrs,
                   DEPENDENCIES_MISSING, load_error, load_log>>

Next == Load \/ Run

Spec == Init /\ [][Next]_vars

(***************************************************************************)
(* Vocabulary of the properties.  These operators describe a report by     *)
(* what the engine printed, without the wrapper's parsing code.            *)
(***************************************************************************)
\* run() has returned with the dependencies loaded and the engine's text
Parsed == pc = "done" /\ ~DEPENDENCIES_MISSING /\ ~engine_report.raises

\* the 0-based indices at which sub occurs in s
Occurrences(s, sub) == {i \in 0..(Len(s) - Len(sub)) : OccursAt(s, sub, i)}

\* the start marker occurs, and the end marker occurs at or after its first
\* occurrence
MarkersInOrder(s) ==
    \E i \in Occurrences(s, START_MARKER) :
        /\ \A k \in Occurrences(s, START_MARKER) : i <= k
        /\ \E j \in Occurrences(s, END_MARKER) : j >= i

HasColon(tok) == \E i \in 1..Len(tok) : tok[i] = ":"
FirstColon(tok) == Min({i \in 1..Len(tok) : tok[i] = ":"})
BeforeFirstColon(tok) == SubSeq(tok, 1, FirstColon(tok) - 1)
AfterFirstColon(tok) == SubSeq(tok, FirstColon(tok) + 1, Len(tok))
\* the text between the first colon and the next one (or the end)
SecondField(tok) ==
    LET rest == AfterFirstColon(tok)
    IN  IF HasColon(rest) THEN BeforeFirstColon(rest) ELSE rest

\* the token was built from an ip and a port
IsEndpointToken(tok) == \E e \in Endpoints : Token(e) = tok
EndpointOf(tok) == CHOOSE e \in Endpoints : Token(e) = tok

\* all address tokens of a report, in report order
RECURSIVE AllTokens(_)
AllTokens(lines) ==
    IF lines = <<>> THEN <<>> ELSE Head(lines).addrs \o AllTokens(Tail(lines))

\* a report with both markers whose lines all are service-group lines that
\* name a registered protocol and hold tokens that satisfy Good
GroupsOnly(r, Good(_), minAddrs) ==
    /\ r.shape = "ok"
    /\ \A n \in 1..Len(r.lines) :
         /\ r.lines[n].kind = "group"
         /\ r.lines[n].name = SSDP
         /\ Len(r.lines[n].addrs) >= minAddrs
         /\ \A m \in 1..Len(r.lines[n].addrs) : Good(r.lines[n].addrs[m])

\* the leading address tokens of a report that come before its first
\* malformed line or token
RECURSIVE TokensBeforeFailure(_)
TokensBeforeFailure(lines) ==
    IF lines = <<>> THEN <<>>
    ELSE LET l == Head(lines)
             n == IF l.kind = "group" /\ l.name = SSDP
                  THEN Max({k \in 0..Len(l.addrs) :
                              \A m \in 1..k : HasColon(l.addrs[m])})
                  ELSE 0
         IN  IF l.kind = "group" /\ n = Len(l.addrs) /\ n > 0
             THEN l.addrs \o TokensBeforeFailure(Tail(lines))
             ELSE SubSeq(l.addrs, 1, n)

(***************************************************************************)
(* C1: when the start marker "Active endpoints:" is absent from the        *)
(* captured report, or "Total number" does not occur at or after the start *)
(* marker (also when it occurs only before it), run() raises the format    *)
(* error and makes no report_service call.                                 *)
(***************************************************************************)
C1_MissingMarkerFails ==
    (Parsed /\ ~MarkersInOrder(cotopaxi_output))
        => (caught = FORMAT_ERROR /\ reported = <<>>)

C1_Witness ==
    /\ Parsed
    /\ engine_report.shape = "end_before_start"
    /\ Len(engine_report.lines) > 0
    /\ Occurrences(cotopaxi_output, END_MARKER) # {}
    /\ caught = FORMAT_ERROR

(***************************************************************************)
(* C2: for a well-formed report of N service-group lines (registered name, *)
(* at least one 'ip:port' address each) run() makes one report_service     *)
(* call per address, in report order, with the ip and the port of the      *)
(* address and the lower-cased protocol name.                              *)
(***************************************************************************)
C2_RoundTrip ==
    (Parsed /\ GroupsOnly(engine_report, IsEndpointToken, 1))
        => LET toks == AllTokens(engine_report.lines)
           IN  /\ caught = "none"
               /\ Len(reported) = Len(toks)
               /\ \A k \in 1..Len(toks) :
                    /\ reported[k].ip = EndpointOf(toks[k]).ip
                    /\ reported[k].port = EndpointOf(toks[k]).port
                    /\ reported[k].name = ssdp

C2_Witness ==
    /\ Parsed
    /\ GroupsOnly(engine_report, IsEndpointToken, 1)
    /\ Len(engine_report.lines) = 2
    /\ Len(reported) = 2
    /\ reported[1] # reported[2]

(***************************************************************************)
(* C3 as stated: a request in which run() hits a failure has made no       *)
(* report_service call.                                                    *)
(***************************************************************************)
C3_FailedRequestReportsNothing ==
    (pc = "done" /\ caught # "none") => reported = <<>>

(***************************************************************************)
(* C3 as amended: a request in which run() hits a failure has made exactly *)
(* the report_service calls for the address tokens that precede the first  *)
(* malformed line or token of the report, in report order; none when the   *)
(* engine raised or a marker is missing.  The failure is caught in run().  *)
(***************************************************************************)
C3_FailedRequestKeepsEarlierCalls ==
    (pc = "done" /\ caught # "none")
        => LET toks == IF engine_report.raises \/ engine_report.shape # "ok"
                       THEN <<>>
                       ELSE TokensBeforeFailure(engine_report.lines)
           IN  /\ logging_error = 1
               /\ Len(reported) = Len(toks)
               /\ \A k \in 1..Len(toks) :
                    reported[k] = [ip |-> BeforeFirstColon(toks[k]),
                                   proto |-> <<"u", "d", "p">>,
                                   port |-> SecondField(toks[k]),
                                   name |-> ssdp]

C3_Witness ==
    /\ pc = "done"
    /\ caught = "IndexError"
    /\ Len(engine_report.lines) = 2
    /\ engine_report.lines[2].kind = "junk"
    /\ Len(reported) = 2

(***************************************************************************)
(* C4 as stated: a service-group line that names a registered protocol in  *)
(* lower case produces the same report_service calls as the line that      *)
(* names it in upper case.                                                 *)
(***************************************************************************)
UpperCased(r) ==
    [r EXCEPT !.lines = [n \in 1..Len(r.lines) |->
        IF r.lines[n].name = ssdp THEN [r.lines[n] EXCEPT !.name = SSDP]
        ELSE r.lines[n]]]

C4_CaseInsensitiveLookup ==
    (Parsed /\ engine_report.shape = "ok")
        => reported = parse(Render(UpperCased(engine_report))).calls

(***************************************************************************)
(* C5 as stated: whichever load-time import fails, loading the module      *)
(* completes and leaves DEPENDENCIES_MISSING true.                         *)
(***************************************************************************)
C5_LoadSurvivesMissingImport ==
    (pc # "start" /\ import_failure # "none")
        => (pc # "crashed" /\ load_error = "none" /\ DEPENDENCIES_MISSING)

(***************************************************************************)
(* C6: when DEPENDENCIES_MISSING is true, run(args) makes no               *)
(* report_service call, logs exactly one error and never calls the engine. *)
(***************************************************************************)
C6_MissingDependencyShortCircuits ==
    (pc = "done" /\ DEPENDENCIES_MISSING)
        => /\ reported = <<>>
           /\ engine_calls = <<>>
           /\ logging_error + module_log = 1

C6_Witness ==
    /\ pc = "done"
    /\ DEPENDENCIES_MISSING
    /\ "RPORTS" \in DOMAIN args
    /\ logging_error = 1

(***************************************************************************)
(* C7 as stated: a service-group line with an empty address list expands   *)
(* to no record and is no error; the lines after it are parsed.            *)
(***************************************************************************)
C7_EmptyListIsNoError ==
    (Parsed /\ GroupsOnly(engine_report, IsEndpointToken, 0))
        => /\ caught = "none"
           /\ Len(reported) = Len(AllTokens(engine_report.lines))

(***************************************************************************)
(* C8: for a report with both markers and no line between the start-marker *)
(* line and the end marker, run() makes no report_service call and raises  *)
(* nothing.                                                                *)
(***************************************************************************)
C8_EmptySectionIsEmptyResult ==
    (Parsed /\ engine_report.shape = "ok" /\ engine_report.lines = <<>>)
        => (reported = <<>> /\ caught = "none" /\ logging_error = 0)

C8_Witness ==
    /\ Parsed
    /\ engine_report.shape = "ok"
    /\ engine_report.lines = <<>>
    /\ MarkersInOrder(cotopaxi_output)
    /\ caught = "none"

(***************************************************************************)
(* C9: with the dependencies loaded, run() calls the engine exactly once,  *)
(* also when the request fails, with [RHOSTS] when RPORTS is absent or     *)
(* empty and with [RHOSTS, RPORTS] otherwise.                              *)
(***************************************************************************)
C9_EngineCalledOnce ==
    (pc = "done" /\ ~DEPENDENCIES_MISSING)
        => /\ Len(engine_calls) = 1
           /\ ("RPORTS" \notin DOMAIN args
                 => engine_calls[1] = <<args["RHOSTS"]>>)
           /\ ("RPORTS" \in DOMAIN args
                 => IF args["RPORTS"] = ""
                    THEN engine_calls[1] = <<args["RHOSTS"]>>
                    ELSE engine_calls[1] = <<args["RHOSTS"], args["RPORTS"]>>)

C9_Witness ==
    /\ pc = "done"
    /\ ~DEPENDENCIES_MISSING
    /\ caught # "none"
    /\ "RPORTS" \in DOMAIN args
    /\ args["RPORTS"] = ""
    /\ Len(engine_calls) = 1

(***************************************************************************)
(* C10 as stated: for every address token with at least one colon, the     *)
(* reported ip is the text before the first colon and the reported port is *)
(* the whole text after the first colon.                                   *)
(***************************************************************************)
C10_PortIsRestAfterFirstColon ==
    (Parsed /\ GroupsOnly(engine_report, HasColon, 1))
        => LET toks == AllTokens(engine_report.lines)
           IN  /\ Len(reported) = Len(toks)
               /\ \A k \in 1..Len(toks) :
                    /\ reported[k].ip = BeforeFirstColon(toks[k])
                    /\ reported[k].port = AfterFirstColon(toks[k])

(***************************************************************************)
(* C10 as amended: for every address token with at least one colon, the    *)
(* reported ip is the text before the first colon and the reported port is *)
(* the text between the first colon and the next colon, or the end of the  *)
(* token when it has no second colon.                                      *)
(***************************************************************************)
C10_PortIsSecondField ==
    (Parsed /\ GroupsOnly(engine_report, HasColon, 1))
        => LET toks == AllTokens(engine_report.lines)
           IN  /\ Len(reported) = Len(toks)
               /\ \A k \in 1..Len(toks) :
                    /\ reported[k].ip = BeforeFirstColon(toks[k])
                    /\ reported[k].port = SecondField(toks[k])

C10_Witness ==
    /\ Parsed
    /\ GroupsOnly(engine_report, HasColon, 1)
    /\ Len(reported) = 2
    /\ engine_report.lines[1].addrs[2] = TOK_MULTI
    /\ reported[2].port = <<>>
====
